---- MODULE Spec2Model ----
(***************************************************************************)
(* Model of analyse_holes.py: a linear batch pipeline that reads a table   *)
(* of part records, explodes the embedded hole lists into a hole table,    *)
(* classifies each hole by its length/radius ratio, aggregates per part,   *)
(* left-joins the flags onto the part table, writes output.gz.parquet,     *)
(* builds the summary, normalises units, and writes basic_insights.xlsx.   *)
(*                                                                         *)
(* Floating point numbers are modelled as exact rationals with the IEEE    *)
(* special values nan and inf; a volume is stored as its coefficient of    *)
(* pi.  The type audit (info) and the quantile statistics                  *)
(* (get_distributions) change no state that the checked properties read    *)
(* and are not modelled.                                                   *)
(***************************************************************************)
EXTENDS Integers, Sequences, FiniteSets, TLC

\* Largest number of part rows in the input table.
MaxParts == 2
\* Largest number of hole descriptors in one part's hole list.
MaxHoles == 2

(***************************************************************************)
(* Floats                                                                  *)
(***************************************************************************)
RECURSIVE GCD(_, _)
GCD(a, b) == IF b = 0 THEN a ELSE GCD(b, a % b)

Num(n, d) ==
    LET g == GCD(n, d)
    IN  [k |-> "num", n |-> n \div g, d |-> d \div g]

NaN == [k |-> "nan", n |-> 0, d |-> 1]
Inf == [k |-> "inf", n |-> 0, d |-> 1]

\* true division of two non-negative floats, as numpy does it
FDiv(a, b) ==
    IF a.k = "nan" \/ b.k = "nan" THEN NaN
    ELSE IF a.k = "inf" THEN (IF b.k = "inf" THEN NaN ELSE Inf)
    ELSE IF b.k = "inf" THEN Num(0, 1)
    ELSE IF b.n = 0 THEN (IF a.n = 0 THEN NaN ELSE Inf)
    ELSE Num(a.n * b.d, a.d * b.n)

FMul(a, b) ==
    IF a.k = "nan" \/ b.k = "nan" THEN NaN
    ELSE IF a.k = "inf" \/ b.k = "inf"
         THEN (IF (a.k = "num" /\ a.n = 0) \/ (b.k = "num" /\ b.n = 0) THEN NaN ELSE Inf)
    ELSE Num(a.n * b.n, a.d * b.d)

\* a > c for an integer c; every comparison with nan is false
FGt(a, c) ==
    CASE a.k = "nan" -> FALSE
      [] a.k = "inf" -> TRUE
      [] OTHER       -> a.n > c * a.d

(***************************************************************************)
(* The input file: part rows whose holes column is JSON text or null       *)
(***************************************************************************)
NULL == "null"

\* a hole descriptor of the decoded list; JSON null decodes to None
Hole(l, r) == [isnull |-> FALSE, length |-> l, radius |-> r]
None == [isnull |-> TRUE, length |-> 0, radius |-> 0]

Tok(s) == [t |-> s, length |-> 0, radius |-> 0]
ObjTok(l, r) == [t |-> "obj", length |-> l, radius |-> r]

\* cells of the holes column
NullCell == [kind |-> "null", text |-> << >>, items |-> << >>]
StrCell(toks) == [kind |-> "str", text |-> toks, items |-> << >>]
ListCell(its) == [kind |-> "list", text |-> << >>, items |-> its]

RECURSIVE json_items(_)
json_items(its) ==
    IF its = << >> THEN << >>
    ELSE LET h == Head(its)
             tk == IF h.isnull THEN Tok("null") ELSE ObjTok(h.length, h.radius)
         IN  IF Len(its) = 1 THEN <<tk>>
             ELSE <<tk, Tok(",")>> \o json_items(Tail(its))

\* the serialised text of a hole list, as the dataset stores it
json_dumps(its) == <<Tok("[")>> \o json_items(its) \o <<Tok("]")>>

\* json.loads on the text of a list
json_loads(text) ==
    LET body == SubSeq(text, 2, Len(text) - 1)
        cnt  == (Len(body) + 1) \div 2
    IN  [j \in 1..cnt |->
            LET tk == body[2 * j - 1]
            IN  IF tk.t = "null" THEN None ELSE Hole(tk.length, tk.radius)]

\* data['holes'].map(json.loads, na_action = 'ignore')
MapLoads(cell) == IF cell.kind = "null" THEN cell ELSE ListCell(json_loads(cell.text))

HoleA == Hole(20, 1)
HoleB == Hole(160, 2)
HoleC == Hole(163, 2)

AllHoleLists ==
    { << >>, <<HoleA>>, <<HoleB>>, <<HoleC>>, <<None, HoleB>>, <<HoleC, HoleC>>,
      <<HoleB, HoleC>>, <<HoleA, None, HoleC>> }

HoleLists == {l \in AllHoleLists : Len(l) <= MaxHoles}

HoleCells == {NullCell} \cup {StrCell(json_dumps(l)) : l \in HoleLists}

KnownUnits == {"mm", "in", "cm"}

Headers ==
    { [uuid |-> "u1", created |-> "2023-01-01", units |-> "mm"],
      [uuid |-> "u2", created |-> "2023-01-02", units |-> "in"],
      [uuid |-> "u1", created |-> "2023-01-03", units |-> "cm"],
      [uuid |-> "u2", created |-> NULL, units |-> "mm"],
      [uuid |-> "u3", created |-> "2023-01-04", units |-> "MM"],
      [uuid |-> "u3", created |-> "2023-01-05", units |-> NULL],
      [uuid |-> "u2", created |-> "2023-01-06", units |-> " mm"] }

Parts ==
    { [uuid |-> h.uuid, created |-> h.created, units |-> h.units, holes |-> c] :
        h \in Headers, c \in HoleCells }

Tables == UNION { [1..n -> Parts] : n \in 0..MaxParts }

OriginalColumns == {"uuid", "created", "units", "holes"}

VARIABLES
    pc,               \* the statement the script executes next
    input,            \* rows of 2023 DE_case_dataset.gz.parquet
    data,             \* the part table
    holes,            \* the hole table, one row per hole
    holes_by_object,  \* the per-part aggregate, indexed by uuid
    output,           \* output.gz.parquet
    summary_dfs,      \* the two blocks of the Summary sheet
    excel             \* basic_insights.xlsx

vars == <<pc, input, data, holes, holes_by_object, output, summary_dfs, excel>>

NotWritten == [written |-> FALSE, rows |-> << >>]
NoSummary == [objects |-> << >>, holes |-> << >>]

Init ==
    /\ pc = "load"
    /\ input \in Tables
    /\ data = << >>
    /\ holes = << >>
    /\ holes_by_object = << >>
    /\ output = NotWritten
    /\ summary_dfs = NoSummary
    /\ excel = NotWritten

(***************************************************************************)
(* Lines 5-9: read the table and decode the holes column                   *)
(***************************************************************************)
Load ==
    /\ pc = "load"
    /\ data' = [i \in 1..Len(input) |->
                  [uuid |-> input[i].uuid, created |-> input[i].created,
                   units |-> input[i].units, holes |-> MapLoads(input[i].holes)]]
    /\ pc' = "explode"
    /\ UNCHANGED <<input, holes, holes_by_object, output, summary_dfs, excel>>

(***************************************************************************)
(* Lines 11-16: one row per list element, then drop rows with a missing    *)
(* value in any of the four columns                                        *)
(***************************************************************************)
HoleRow(i, row, h) ==
    [index |-> i, uuid |-> row.uuid, created |-> row.created, units |-> row.units,
     holes |-> h]

\* explode: a null cell and an empty list each give one row holding NaN
ExplodeRow(i, row) ==
    IF row.holes.kind = "list" /\ row.holes.items # << >>
    THEN [j \in 1..Len(row.holes.items) |-> HoleRow(i, row, row.holes.items[j])]
    ELSE <<HoleRow(i, row, None)>>

RECURSIVE ExplodeFrom(_, _)
ExplodeFrom(df, i) ==
    IF i > Len(df) THEN << >>
    ELSE ExplodeRow(i, df[i]) \o ExplodeFrom(df, i + 1)

HasNa(r) == r.uuid = NULL \/ r.created = NULL \/ r.units = NULL \/ r.holes.isnull

dropna(rows) == SelectSeq(rows, LAMBDA r : ~HasNa(r))

Explode ==
    /\ pc = "explode"
    /\ holes' = dropna(ExplodeFrom(data, 1))
    /\ pc' = "classify"
    /\ UNCHANGED <<input, data, holes_by_object, output, summary_dfs, excel>>

(***************************************************************************)
(* Lines 18-25: length, radius, ratio and the two flags                    *)
(***************************************************************************)
WarningThreshold == 20
ErrorThreshold == 80

Ratio(length, radius) == FDiv(length, radius)

\* variant: a non-strict comparison, ratio >= 20
has_unreachable_hole_warning_ge(ratio) ==
    CASE ratio.k = "nan" -> FALSE
      [] ratio.k = "inf" -> TRUE
      [] OTHER           -> ratio.n >= WarningThreshold * ratio.d

has_unreachable_hole_warning(ratio) == FGt(ratio, WarningThreshold)

\* variant: the error threshold mistyped as 8
has_unreachable_hole_error_typo(ratio) == FGt(ratio, ErrorThreshold \div 10)

has_unreachable_hole_error(ratio) == FGt(ratio, ErrorThreshold)

ClassifyRow(r) ==
    LET length == Num(r.holes.length, 1)
        radius == Num(r.holes.radius, 1)
        ratio  == Ratio(length, radius)
    IN  [index |-> r.index, uuid |-> r.uuid, created |-> r.created, units |-> r.units,
         holes |-> r.holes, length |-> length, radius |-> radius, ratio |-> ratio,
         has_unreachable_hole_warning |-> has_unreachable_hole_warning(ratio),
         has_unreachable_hole_error |-> has_unreachable_hole_error(ratio)]

Classify ==
    /\ pc = "classify"
    /\ holes' = [k \in 1..Len(holes) |-> ClassifyRow(holes[k])]
    /\ pc' = "aggregate"
    /\ UNCHANGED <<input, data, holes_by_object, output, summary_dfs, excel>>

(***************************************************************************)
(* Lines 27-44: group the hole rows by uuid                                *)
(***************************************************************************)
Group(rows, u) == {k \in 1..Len(rows) : rows[k].uuid = u}

\* variant: 'nunique' in place of 'count'
CountHoles_nunique(rows, u) ==
    Cardinality({rows[k].holes : k \in {j \in Group(rows, u) : ~rows[j].holes.isnull}})

\* 'count': the non-null values of the holes column in the group
CountHoles(rows, u) == Cardinality({k \in Group(rows, u) : ~rows[k].holes.isnull})

AggAny(rows, u, col) == \E k \in Group(rows, u) : rows[k][col]

AggSum(rows, u, col) == Cardinality({k \in Group(rows, u) : rows[k][col]})

GroupByUuid(rows) ==
    [u \in {rows[k].uuid : k \in 1..Len(rows)} |->
        [holes_amount |-> CountHoles(rows, u),
         has_unreachable_hole_warning |-> AggAny(rows, u, "has_unreachable_hole_warning"),
         amount_unreachable_hole_warning |-> AggSum(rows, u, "has_unreachable_hole_warning"),
         has_unreachable_hole_error |-> AggAny(rows, u, "has_unreachable_hole_error"),
         amount_unreachable_hole_error |-> AggSum(rows, u, "has_unreachable_hole_error")]]

Aggregate ==
    /\ pc = "aggregate"
    /\ holes_by_object' = GroupByUuid(holes)
    /\ pc' = "merge"
    /\ UNCHANGED <<input, data, holes, output, summary_dfs, excel>>

(***************************************************************************)
(* Lines 47-54: left join of the two flag columns onto the part table      *)
(***************************************************************************)
NA == [na |-> TRUE, v |-> FALSE]
Val(b) == [na |-> FALSE, v |-> b]

Joined(row, w, e) ==
    [uuid |-> row.uuid, created |-> row.created, units |-> row.units, holes |-> row.holes,
     has_unreachable_hole_warning |-> w, has_unreachable_hole_error |-> e]

\* variant: how = 'inner'
RECURSIVE MergeInner(_, _)
MergeInner(left, right) ==
    IF left = << >> THEN << >>
    ELSE LET row == Head(left)
             matches == {u \in DOMAIN right : u = row.uuid}
             joined ==
                 IF matches = {} THEN << >>
                 ELSE LET m == right[CHOOSE u \in matches : TRUE]
                      IN  <<Joined(row, Val(m.has_unreachable_hole_warning),
                                   Val(m.has_unreachable_hole_error))>>
         IN  joined \o MergeInner(Tail(left), right)

RECURSIVE MergeLeft(_, _)
MergeLeft(left, right) ==
    IF left = << >> THEN << >>
    ELSE LET row == Head(left)
             matches == {u \in DOMAIN right : u = row.uuid}
             joined ==
                 IF matches = {} THEN <<Joined(row, NA, NA)>>
                 ELSE LET m == right[CHOOSE u \in matches : TRUE]
                      IN  <<Joined(row, Val(m.has_unreachable_hole_warning),
                                   Val(m.has_unreachable_hole_error))>>
         IN  joined \o MergeLeft(Tail(left), right)

Merge ==
    /\ pc = "merge"
    /\ data' = MergeLeft(data, holes_by_object)
    /\ pc' = "save"
    /\ UNCHANGED <<input, holes, holes_by_object, output, summary_dfs, excel>>

(***************************************************************************)
(* Lines 56-57: write output.gz.parquet                                    *)
(***************************************************************************)
SaveParquet ==
    /\ pc = "save"
    /\ output' = [written |-> TRUE, rows |-> data]
    /\ pc' = "summarise"
    /\ UNCHANGED <<input, data, holes, holes_by_object, summary_dfs, excel>>

(***************************************************************************)
(* Lines 75-101: the Summary sheet, absolute counts and percentages        *)
(***************************************************************************)
Entry(label, count) == [label |-> label, absolute_counts |-> count]

\* the sum of a boolean column of holes_by_object
CountObjects(hbo, col) == Cardinality({u \in DOMAIN hbo : hbo[u][col]})

\* (holes_by_object[col] > 1).sum()
CountObjectsOverOne(hbo, col) == Cardinality({u \in DOMAIN hbo : hbo[u][col] > 1})

CountRows(rows, col) == Cardinality({k \in 1..Len(rows) : rows[k][col]})

summary_dicts(df, rows, hbo) ==
    [objects |->
        << Entry("Total objects", Len(df)),
           Entry("Objects with holes", Cardinality(DOMAIN hbo)),
           Entry("Objects with poor ratio holes",
                 CountObjects(hbo, "has_unreachable_hole_warning")),
           Entry("Objects with 2 or more poor ratio holes",
                 CountObjectsOverOne(hbo, "amount_unreachable_hole_warning")),
           Entry("Objects with critical ratio holes",
                 CountObjects(hbo, "has_unreachable_hole_error")),
           Entry("Objects with 2 or more critical ratio holes",
                 CountObjectsOverOne(hbo, "amount_unreachable_hole_error")) >>,
     holes |->
        << Entry("Total holes", Len(rows)),
           Entry("Holes with poor ratio", CountRows(rows, "has_unreachable_hole_warning")),
           Entry("Holes with critical ratio", CountRows(rows, "has_unreachable_hole_error")) >>]

WithPercentage(block, total) ==
    [r \in 1..Len(block) |->
        [label |-> block[r].label, absolute_counts |-> block[r].absolute_counts,
         percentage |-> FDiv(Num(block[r].absolute_counts, 1), Num(total, 1))]]

\* variant: each block divided by the other block's total
Percentages_swapped(dicts, nobjects, nholes) ==
    [objects |-> WithPercentage(dicts.objects, nholes),
     holes |-> WithPercentage(dicts.holes, nobjects)]

\* lines 93-98: each block is divided by its own total
Percentages(dicts, nobjects, nholes) ==
    [objects |-> WithPercentage(dicts.objects, nobjects),
     holes |-> WithPercentage(dicts.holes, nholes)]

Summarise ==
    /\ pc = "summarise"
    /\ summary_dfs' = Percentages(summary_dicts(data, holes, holes_by_object),
                                  Len(data), Len(holes))
    /\ pc' = "normalise"
    /\ UNCHANGED <<input, data, holes, holes_by_object, output, excel>>

(***************************************************************************)
(* Lines 105-119: conversion to millimetres                                *)
(***************************************************************************)
Raise == [k |-> "raise", n |-> 0, d |-> 1]

\* variant: an unknown unit falls back to the factor 1
get_conversion_fallback(unit) ==
    IF unit = "mm" THEN Num(1, 1)
    ELSE IF unit = "in" THEN Num(254, 10)
    ELSE IF unit = "cm" THEN Num(10, 1)
    ELSE Num(1, 1)

get_conversion(unit) ==
    IF unit = "mm" THEN Num(1, 1)
    ELSE IF unit = "in" THEN Num(254, 10)
    ELSE IF unit = "cm" THEN Num(10, 1)
    ELSE Raise

NormaliseRow(r) ==
    LET conversion == get_conversion(r.units)
    IN  [index |-> r.index, uuid |-> r.uuid, created |-> r.created, units |-> r.units,
         holes |-> r.holes,
         length |-> FMul(r.length, conversion), radius |-> FMul(r.radius, conversion),
         ratio |-> r.ratio,
         has_unreachable_hole_warning |-> r.has_unreachable_hole_warning,
         has_unreachable_hole_error |-> r.has_unreachable_hole_error,
         conversion |-> conversion]

Raises(rows) == \E k \in 1..Len(rows) : get_conversion(rows[k].units) = Raise

Normalise ==
    /\ pc = "normalise"
    /\ ~Raises(holes)
    /\ holes' = [k \in 1..Len(holes) |-> NormaliseRow(holes[k])]
    /\ pc' = "volume"
    /\ UNCHANGED <<input, data, holes_by_object, output, summary_dfs, excel>>

\* the exception of get_conversion leaves the map, nothing is assigned
Abort ==
    /\ pc = "normalise"
    /\ Raises(holes)
    /\ pc' = "aborted"
    /\ UNCHANGED <<input, data, holes, holes_by_object, output, summary_dfs, excel>>

(***************************************************************************)
(* Lines 121-124: hole volume, then drop the units and conversion columns  *)
(***************************************************************************)
\* the coefficient of pi in pi * radius ** 2 * length
VolumeOverPi(radius, length) == FMul(FMul(radius, radius), length)

VolumeRow(r) ==
    [index |-> r.index, uuid |-> r.uuid, created |-> r.created, holes |-> r.holes,
     length |-> r.length, radius |-> r.radius, ratio |-> r.ratio,
     has_unreachable_hole_warning |-> r.has_unreachable_hole_warning,
     has_unreachable_hole_error |-> r.has_unreachable_hole_error,
     volume |-> VolumeOverPi(r.radius, r.length)]

Volume ==
    /\ pc = "volume"
    /\ holes' = [k \in 1..Len(holes) |-> VolumeRow(holes[k])]
    /\ pc' = "report"
    /\ UNCHANGED <<input, data, holes_by_object, output, summary_dfs, excel>>

(***************************************************************************)
(* Lines 158-188: write basic_insights.xlsx                                *)
(***************************************************************************)
WriteExcel ==
    /\ pc = "report"
    /\ excel' = [written |-> TRUE, rows |-> summary_dfs.objects \o summary_dfs.holes]
    /\ pc' = "done"
    /\ UNCHANGED <<input, data, holes, holes_by_object, output, summary_dfs>>

Next ==
    \/ Load
    \/ Explode
    \/ Classify
    \/ Aggregate
    \/ Merge
    \/ SaveParquet
    \/ Summarise
    \/ Normalise
    \/ Abort
    \/ Volume
    \/ WriteExcel

Spec == Init /\ [][Next]_vars

(***************************************************************************)
(* Properties                                                              *)
(***************************************************************************)
AfterClassify ==
    {"aggregate", "merge", "save", "summarise", "normalise", "aborted", "volume",
     "report", "done"}
AfterAggregate == AfterClassify \ {"aggregate"}
AfterSummary == {"normalise", "aborted", "volume", "report", "done"}
AfterNormalise == {"volume", "report", "done"}

\* the non-null hole descriptors that part i of the input file holds
InputHoles(i) ==
    IF input[i].holes.kind = "null" THEN << >>
    ELSE SelectSeq(json_loads(input[i].holes.text), LAMBDA h : ~h.isnull)

\* C1: every hole row has ratio = raw length / raw radius (the values of the
\* part's declared unit, untouched by the later normalisation), is flagged
\* warning iff ratio > 20 and error iff ratio > 80, both strict, and error
\* implies warning.
C1_RatioAndFlags ==
    pc \in AfterClassify =>
        \A k \in 1..Len(holes) :
            LET r == holes[k]
                l == r.holes.length
                d == r.holes.radius
            IN  /\ \E j \in 1..Len(InputHoles(r.index)) : InputHoles(r.index)[j] = r.holes
                /\ r.ratio.k = "num"
                /\ r.ratio.n * d = r.ratio.d * l
                /\ r.has_unreachable_hole_warning <=> (l > 20 * d)
                /\ r.has_unreachable_hole_error <=> (l > 80 * d)
                /\ r.has_unreachable_hole_error => r.has_unreachable_hole_warning

\* a hole of ratio exactly 80 in an inch part, after its length was rescaled
C1_Witness ==
    /\ pc = "done"
    /\ \E k \in 1..Len(holes) :
          /\ holes[k].length # Num(holes[k].holes.length, 1)
          /\ holes[k].ratio = Num(80, 1)
          /\ holes[k].has_unreachable_hole_warning
          /\ ~holes[k].has_unreachable_hole_error

\* C2: when the run aborts on an unknown unit, neither output.gz.parquet nor
\* basic_insights.xlsx has been written.
C2_NoOutputOnFailure == pc = "aborted" => ~output.written /\ ~excel.written

\* C3: the part table written to output.gz.parquet has exactly the rows of
\* the input table, none duplicated and none dropped, also with shared uuids.
C3_RowCount ==
    output.written =>
        /\ Len(output.rows) = Len(input)
        /\ \A i \in 1..Len(input) :
              /\ output.rows[i].uuid = input[i].uuid
              /\ output.rows[i].created = input[i].created

\* two part rows share a uuid that has hole rows, and a third kind has none
C3_Witness ==
    /\ output.written
    /\ Len(input) >= 2
    /\ input[1].uuid = input[2].uuid
    /\ input[1].uuid \in DOMAIN holes_by_object
    /\ Len(holes) >= 2

\* C4: output.gz.parquet carries every original column of every part row with
\* the value and representation of the input, plus exactly the two flags.
C4_SchemaPreserved ==
    output.written =>
        /\ Len(output.rows) = Len(input)
        /\ \A i \in 1..Len(output.rows) :
              /\ DOMAIN output.rows[i] = OriginalColumns \cup
                    {"has_unreachable_hole_warning", "has_unreachable_hole_error"}
              /\ \A c \in OriginalColumns : output.rows[i][c] = input[i][c]

UniqueUuids ==
    \A i, j \in 1..Len(input) : input[i].uuid = input[j].uuid => i = j

\* C5: with unique uuids, a part with holes gets warning = (some hole has
\* ratio > 20) and error = (some hole has ratio > 80); a part with no holes
\* gets missing values for both.
C5_PartFlags ==
    (output.written /\ UniqueUuids) =>
        \A i \in 1..Len(input) :
            LET hs == InputHoles(i)
                row == output.rows[i]
            IN  IF hs = << >>
                THEN /\ row.has_unreachable_hole_warning = NA
                     /\ row.has_unreachable_hole_error = NA
                ELSE /\ row.has_unreachable_hole_warning =
                            Val(\E j \in 1..Len(hs) : hs[j].length > 20 * hs[j].radius)
                     /\ row.has_unreachable_hole_error =
                            Val(\E j \in 1..Len(hs) : hs[j].length > 80 * hs[j].radius)

RECURSIVE ExpectedHoleRows(_)
ExpectedHoleRows(i) ==
    IF i > Len(input) THEN << >>
    ELSE [j \in 1..Len(InputHoles(i)) |->
             [index |-> i, uuid |-> input[i].uuid, created |-> input[i].created,
              units |-> input[i].units, holes |-> InputHoles(i)[j]]]
         \o ExpectedHoleRows(i + 1)

\* C6: the hole table has exactly one row for each non-null hole descriptor
\* of every part of the input, carrying the part's uuid, creation time and
\* unit; only null descriptors and absent or empty lists contribute no row.
C6_ExplodedRows == pc = "classify" => holes = ExpectedHoleRows(1)

RECURSIVE SumAmounts(_, _)
SumAmounts(hbo, keys) ==
    IF keys = {} THEN 0
    ELSE LET u == CHOOSE x \in keys : TRUE
         IN  hbo[u].holes_amount + SumAmounts(hbo, keys \ {u})

\* C7: holes_by_object has one row per uuid of the hole table, holes_amount
\* is the number of hole rows with that uuid, and the amounts sum to the
\* number of hole rows.
C7_HolesAmount ==
    pc \in AfterAggregate =>
        /\ DOMAIN holes_by_object = {holes[k].uuid : k \in 1..Len(holes)}
        /\ \A u \in DOMAIN holes_by_object :
              holes_by_object[u].holes_amount =
                  Cardinality({k \in 1..Len(holes) : holes[k].uuid = u})
        /\ SumAmounts(holes_by_object, DOMAIN holes_by_object) = Len(holes)

\* two parts with hole rows, one of them with two equal holes
C7_Witness ==
    /\ pc = "merge"
    /\ Cardinality(DOMAIN holes_by_object) >= 2
    /\ \E k1, k2 \in 1..Len(holes) :
          /\ k1 # k2
          /\ holes[k1].uuid = holes[k2].uuid
          /\ holes[k1].holes = holes[k2].holes

\* the factor to millimetres, as numerator and denominator
FactorNum(unit) == CASE unit = "mm" -> 1 [] unit = "in" -> 254 [] unit = "cm" -> 10
FactorDen(unit) == CASE unit = "mm" -> 1 [] unit = "in" -> 10 [] unit = "cm" -> 1

\* C8: normalisation multiplies length and radius by 1 for mm, 25.4 for in
\* and 10 for cm; any other unit of a hole row raises, and then no factor is
\* applied to any row.
C8_Conversion ==
    /\ pc \in AfterNormalise =>
          \A k \in 1..Len(holes) :
              LET r == holes[k]
                  unit == input[r.index].units
              IN  /\ unit \in KnownUnits
                  /\ r.length.k = "num" /\ r.radius.k = "num"
                  /\ r.length.n * FactorDen(unit) =
                         r.length.d * r.holes.length * FactorNum(unit)
                  /\ r.radius.n * FactorDen(unit) =
                         r.radius.d * r.holes.radius * FactorNum(unit)
    /\ pc = "aborted" =>
          /\ \E k \in 1..Len(holes) : holes[k].units \notin KnownUnits
          /\ \A k \in 1..Len(holes) :
                /\ "conversion" \notin DOMAIN holes[k]
                /\ holes[k].length = Num(holes[k].holes.length, 1)
                /\ holes[k].radius = Num(holes[k].holes.radius, 1)
    /\ (pc = "normalise" /\ \E k \in 1..Len(holes) : holes[k].units \notin KnownUnits)
          => ~ENABLED Normalise

\* an inch hole and a centimetre hole, both rescaled
C8_Witness ==
    /\ pc = "volume"
    /\ \E k \in 1..Len(holes) :
          holes[k].units = "in" /\ holes[k].length.n * 10 = holes[k].holes.length * 254
                                                              * holes[k].length.d
    /\ \E k \in 1..Len(holes) : holes[k].units = "cm"

RECURSIVE SumCounts(_)
SumCounts(block) ==
    IF block = << >> THEN 0 ELSE Head(block).absolute_counts + SumCounts(Tail(block))

\* the sum of two non-negative floats
FAdd(a, b) ==
    IF a.k = "nan" \/ b.k = "nan" THEN NaN
    ELSE IF a.k = "inf" \/ b.k = "inf" THEN Inf
    ELSE Num(a.n * b.d + b.n * a.d, a.d * b.d)

RECURSIVE SumPercentage(_)
SumPercentage(block) ==
    IF block = << >> THEN Num(0, 1)
    ELSE FAdd(Head(block).percentage, SumPercentage(Tail(block)))

BlockTotal(b) == IF b = "objects" THEN Len(input) ELSE Len(holes)

\* C9: the percentage column of a block of the Summary sheet sums to 1 when
\* the block's counts add up to the block's total.
C9_PercentagesSumToOne ==
    pc \in AfterSummary =>
        \A b \in {"objects", "holes"} :
            SumCounts(summary_dfs[b]) = BlockTotal(b)
                => SumPercentage(summary_dfs[b]) = Num(1, 1)

\* C9 (amended): the same, for a block whose total is not zero.
C9_PercentagesSumToOneNonEmpty ==
    pc \in AfterSummary =>
        \A b \in {"objects", "holes"} :
            (BlockTotal(b) # 0 /\ SumCounts(summary_dfs[b]) = BlockTotal(b))
                => SumPercentage(summary_dfs[b]) = Num(1, 1)

\* the holes block has a non-zero total that its counts add up to
C9_Witness ==
    /\ pc = "normalise"
    /\ Len(holes) > 0
    /\ SumCounts(summary_dfs.holes) = Len(holes)
    /\ SumPercentage(summary_dfs.holes) = Num(1, 1)

\* C10: every row of holes_by_object has holes_amount >= 1 and
\* 0 <= amount error <= amount warning <= holes_amount, each has_ flag is
\* true iff its amount is at least 1, so error implies warning; in the output
\* the two flags of a part are both missing or both present.
C10_AggregateInvariant ==
    /\ pc \in AfterAggregate =>
          \A u \in DOMAIN holes_by_object :
              LET o == holes_by_object[u]
              IN  /\ o.holes_amount >= 1
                  /\ 0 <= o.amount_unreachable_hole_error
                  /\ o.amount_unreachable_hole_error <= o.amount_unreachable_hole_warning
                  /\ o.amount_unreachable_hole_warning <= o.holes_amount
                  /\ o.has_unreachable_hole_warning <=> o.amount_unreachable_hole_warning >= 1
                  /\ o.has_unreachable_hole_error <=> o.amount_unreachable_hole_error >= 1
                  /\ o.has_unreachable_hole_error => o.has_unreachable_hole_warning
    /\ output.written =>
          \A i \in 1..Len(output.rows) :
              output.rows[i].has_unreachable_hole_warning.na
                  = output.rows[i].has_unreachable_hole_error.na

\* a part with warning holes of which only some are errors, next to a part
\* whose flags are missing
C10_Witness ==
    /\ output.written
    /\ \E u \in DOMAIN holes_by_object :
          /\ holes_by_object[u].amount_unreachable_hole_error >= 1
          /\ holes_by_object[u].amount_unreachable_hole_warning
                > holes_by_object[u].amount_unreachable_hole_error
    /\ \E i \in 1..Len(output.rows) : output.rows[i].has_unreachable_hole_warning.na

====
